---- MODULE Spec2Model ----
(***************************************************************************)
(* A model of package logger (src/logger.go): the logger factory (New,     *)
(* NewDefault), the facade (With, Named, WithContext and the leveled       *)
(* emitters), the gin middleware GinLogger and the gRPC unary interceptor  *)
(* GRPCLoggingInterceptor.                                                 *)
(*                                                                         *)
(* Texts that the code parses (the level name) are sequences of one-letter *)
(* strings, so that case folding is computed. Pointers are either a record *)
(* with nil = TRUE or, for loggers kept on the heap, an index (0 is nil).  *)
(* A record handed to the engine carries the flag "enabled": whether the   *)
(* logger's level lets the engine write it to the sinks.                   *)
(***************************************************************************)
EXTENDS Integers, Sequences, FiniteSets, TLC

VARIABLES
    \* --- factory ---
    cfg,        \* the caller's Config value (OutputPaths is a slice header)
    backing,    \* the array behind cfg.OutputPaths, all cap elements of it
    loaded,     \* history: cfg and backing as the caller loaded them
    result,     \* what the last call of New returned, and what it assembled
    dflt,       \* what the last call of NewDefault did
    \* --- facade ---
    heap,       \* the *Logger values allocated so far (index = pointer)
    origin,     \* history: for each heap logger, how it was derived
    emitted,    \* history: the latest call, if an emitter: logger and record
    wctx,       \* history: the latest call, if WithContext: its arguments,
                \* the pointer it returned and the heap before it
    \* --- shared by the two interceptors ---
    log,        \* the *Logger captured by GinLogger / GRPCLoggingInterceptor
    now,        \* the monotonic clock read by time.Now()
    \* --- HTTP middleware ---
    http,       \* the gin.Context of the request in the middleware, and its locals
    httpLog,    \* records the middleware handed to log for that request
    \* --- gRPC interceptor ---
    rpc,        \* the unary call in the interceptor, and its locals
    rpcLog      \* records the interceptor handed to log for that call

factoryVars == <<cfg, backing, loaded, result, dflt>>
facadeVars  == <<heap, origin, emitted, wctx>>
sharedVars  == <<log, now>>
httpVars    == <<http, httpLog>>
rpcVars     == <<rpc, rpcLog>>
vars == <<cfg, backing, loaded, result, dflt, heap, origin, emitted, wctx,
          log, now, http, httpLog, rpc, rpcLog>>

(***************************************************************************)
(* Bounds of the model.                                                    *)
(***************************************************************************)
MaxCap == 2         \* capacity of the array behind cfg.OutputPaths
MaxLoggers == 3     \* loggers on the heap (derivation depth MaxLoggers - 1)
MaxErrors == 2      \* errors a handler chain accumulates in c.Errors
MaxClock == 2       \* largest reading of the clock

(***************************************************************************)
(* Severity levels (zapcore.Level), in increasing order.                   *)
(***************************************************************************)
Levels == <<"debug", "info", "warn", "error", "dpanic", "panic", "fatal">>

LevelSet == {Levels[i] : i \in 1..Len(Levels)}

LevelRank(l) == CHOOSE i \in 1..Len(Levels) : Levels[i] = l

\* The lower-case spelling of each level, as UnmarshalText matches it.
Spell(l) ==
    CASE l = "debug"  -> <<"d", "e", "b", "u", "g">>
      [] l = "info"   -> <<"i", "n", "f", "o">>
      [] l = "warn"   -> <<"w", "a", "r", "n">>
      [] l = "error"  -> <<"e", "r", "r", "o", "r">>
      [] l = "dpanic" -> <<"d", "p", "a", "n", "i", "c">>
      [] l = "panic"  -> <<"p", "a", "n", "i", "c">>
      [] l = "fatal"  -> <<"f", "a", "t", "a", "l">>

\* Upper/lower pairs of the letters the level names are spelt with.
CasePairs ==
    { <<"A", "a">>, <<"B", "b">>, <<"C", "c">>, <<"D", "d">>, <<"E", "e">>,
      <<"F", "f">>, <<"G", "g">>, <<"I", "i">>, <<"L", "l">>, <<"N", "n">>,
      <<"O", "o">>, <<"P", "p">>, <<"R", "r">>, <<"T", "t">>, <<"U", "u">>,
      <<"V", "v">>, <<"W", "w">> }

LowerChar(c) ==
    IF \E p \in CasePairs : p[1] = c
    THEN (CHOOSE p \in CasePairs : p[1] = c)[2]
    ELSE c

UpperChar(c) ==
    IF \E p \in CasePairs : p[2] = c
    THEN (CHOOSE p \in CasePairs : p[2] = c)[1]
    ELSE c

\* bytes.ToLower
ToLower(t) == [i \in 1..Len(t) |-> LowerChar(t[i])]

ToUpper(t) == [i \in 1..Len(t) |-> UpperChar(t[i])]

\* zapcore's (*Level).unmarshalText: the exact spellings it accepts. The empty
\* text is accepted and gives InfoLevel.
unmarshalText(text) ==
    IF \E l \in LevelSet : text \in {Spell(l), ToUpper(Spell(l))}
    THEN [ok |-> TRUE,
          level |-> CHOOSE l \in LevelSet : text \in {Spell(l), ToUpper(Spell(l))}]
    ELSE IF text = <<>>
         THEN [ok |-> TRUE, level |-> "info"]
         ELSE [ok |-> FALSE, level |-> ""]

\* Faulty variant of UnmarshalText: an unrecognized text keeps the level.
UnmarshalTextLax(cur, text) ==
    LET a == unmarshalText(text)
        b == unmarshalText(ToLower(text))
    IN  IF a.ok THEN a
        ELSE IF b.ok THEN b
        ELSE [ok |-> TRUE, level |-> cur]

\* logLevel.UnmarshalText([]byte(cfg.LogLevel)) on a level that holds cur:
\* the text as written, then the text in lower case; the level is left alone
\* when neither is accepted.
UnmarshalText(cur, text) ==
    LET a == unmarshalText(text)
        b == unmarshalText(ToLower(text))
    IN  IF a.ok THEN a
        ELSE IF b.ok THEN b
        ELSE [ok |-> FALSE, level |-> cur]

(***************************************************************************)
(* Loggers and records.                                                    *)
(***************************************************************************)
NilLogger == [nil |-> TRUE, level |-> "", name |-> <<>>, fields |-> <<>>]

MkLogger(level) == [nil |-> FALSE, level |-> level, name |-> <<>>, fields |-> <<>>]

\* The engine's level check: a record is written when its severity is at or
\* above the logger's level.
Enabled(l, sev) == LevelRank(sev) >= LevelRank(l.level)

\* One record of logger l: l's name and standing fields, then the call's.
Record(l, sev, msg, kv) ==
    [level |-> sev, msg |-> msg, name |-> l.name,
     fields |-> l.fields \o kv, enabled |-> Enabled(l, sev)]

Infow(l, msg, kv) == Record(l, "info", msg, kv)

Errorw(l, msg, kv) == Record(l, "error", msg, kv)

(***************************************************************************)
(* The factory: New and NewDefault.                                        *)
(***************************************************************************)
\* Level texts a configuration may hold: the empty text, exact, upper-case and
\* mixed-case spellings of level names, and texts that name no level.
LevelTexts ==
    { <<>>,
      Spell("info"), ToUpper(Spell("info")),
      <<"W", "a", "r", "n">>,
      Spell("error"), Spell("debug"),
      <<"t", "r", "a", "c", "e">>,
      <<"i", "n", "f">> }

\* Encodings a configuration may hold; the engine registers json and console.
Encodings == {"", "json", "console", "xml"}

RegisteredEncodings == {"json", "console"}

\* Sink identifiers; the last one is in a directory that does not exist.
Paths == {"stdout", "/var/log/app.log", "/nonexistent/app.log"}

Openable(path) == path # "/nonexistent/app.log"

\* Go slices: a header (len, cap) over an array of cap elements.
SliceOf(hdr, store) == SubSeq(store, 1, hdr.len)

\* append(s, x) of Go: within capacity the element is written into the array
\* s already has and the new slice shares it; otherwise a new array is made.
GoAppend(hdr, store, x) ==
    IF hdr.len < hdr.cap
    THEN [hdr |-> [len |-> hdr.len + 1, cap |-> hdr.cap],
          store |-> [store EXCEPT ![hdr.len + 1] = x],
          shared |-> TRUE]
    ELSE [hdr |-> [len |-> hdr.len + 1, cap |-> hdr.len + 1],
          store |-> SliceOf(hdr, store) \o <<x>>,
          shared |-> FALSE]

\* if cfg.Encoding == "" { cfg.Encoding = "json" }, on New's copy of cfg.
ResolveEncoding(enc) == IF enc = "" THEN "json" ELSE enc

\* The encoder preset, then the two encoders New always sets.
EncoderConfig(development) ==
    [preset |-> IF development THEN "development" ELSE "production",
     EncodeTime |-> "ISO8601",
     EncodeLevel |-> "CapitalColor"]

NoZapConfig ==
    [assembled |-> FALSE, Level |-> "", Development |-> FALSE, Encoding |-> "",
     EncoderConfig |-> EncoderConfig(FALSE), OutputPaths |-> <<>>,
     ErrorOutputPaths |-> <<>>]

\* Faulty variant of ZapConfig: the configured sinks without "stderr".
ZapConfigNoStderr(c, store, level) ==
    [assembled |-> TRUE,
     Level |-> level,
     Development |-> c.Development,
     Encoding |-> ResolveEncoding(c.Encoding),
     EncoderConfig |-> EncoderConfig(c.Development),
     OutputPaths |-> SliceOf(c.OutputPaths, store),
     ErrorOutputPaths |-> <<"stderr">>]

\* The zap.Config literal of New; OutputPaths is read through the slice that
\* append returned.
ZapConfig(c, store, level) ==
    LET a == GoAppend(c.OutputPaths, store, "stderr")
    IN  [assembled |-> TRUE,
         Level |-> level,
         Development |-> c.Development,
         Encoding |-> ResolveEncoding(c.Encoding),
         EncoderConfig |-> EncoderConfig(c.Development),
         OutputPaths |-> SliceOf(a.hdr, a.store),
         ErrorOutputPaths |-> <<"stderr">>]

\* zapConfig.Build(): the engine rejects an encoding it has not registered and
\* a sink it cannot open.
BuildOK(zc) ==
    /\ zc.Encoding \in RegisteredEncodings
    /\ \A i \in 1..Len(zc.OutputPaths) :
          zc.OutputPaths[i] \in {"stderr", "stdout"} \/ Openable(zc.OutputPaths[i])

\* New(cfg): what it returns, the configuration it assembled, and the array
\* behind the caller's OutputPaths after the call.
NewCall(c, store) ==
    LET parsed == UnmarshalText("info", c.LogLevel)
        zc == ZapConfig(c, store, parsed.level)
        a == GoAppend(c.OutputPaths, store, "stderr")
    IN  IF ~parsed.ok
        THEN [logger |-> NilLogger, err |-> "unrecognized level",
              zap |-> NoZapConfig, store |-> store]
        ELSE [logger |-> IF BuildOK(zc) THEN MkLogger(parsed.level) ELSE NilLogger,
              err |-> IF BuildOK(zc) THEN "" ELSE "build failed",
              zap |-> zc,
              store |-> IF a.shared THEN a.store ELSE store]

New ==
    LET r == NewCall(cfg, backing)
    IN  /\ result' = [called |-> TRUE, logger |-> r.logger, err |-> r.err,
                      zap |-> r.zap]
        /\ backing' = r.store
        /\ UNCHANGED <<cfg, loaded, dflt>>
        /\ UNCHANGED <<facadeVars, sharedVars, httpVars, rpcVars>>

\* NewDefault(): zap.NewProduction() returns (logger, nil) or (nil, err); the
\* error is dropped and Sugar() is called on what was returned. Sugar() on a
\* nil *zap.Logger dereferences it.
NewDefaultCall(outcome) ==
    IF outcome = "ok"
    THEN [called |-> TRUE, panicked |-> FALSE, logger |-> MkLogger("info")]
    ELSE [called |-> TRUE, panicked |-> TRUE, logger |-> NilLogger]

NewDefault ==
    /\ \E outcome \in {"ok", "err"} : dflt' = NewDefaultCall(outcome)
    /\ UNCHANGED <<cfg, backing, loaded, result>>
    /\ UNCHANGED <<facadeVars, sharedVars, httpVars, rpcVars>>

\* Configurations a caller may hold: every level text, flag and encoding, and
\* every OutputPaths slice of length at most the size of its array.
Configs ==
    { r \in [c : [LogLevel : LevelTexts, Development : BOOLEAN, Encoding : Encodings,
                  OutputPaths : [len : 0..MaxCap, cap : 0..MaxCap]],
             store : UNION {[1..k -> Paths] : k \in 0..MaxCap}] :
        /\ r.c.OutputPaths.cap = Len(r.store)
        /\ r.c.OutputPaths.len <= r.c.OutputPaths.cap }

NoResult == [called |-> FALSE, logger |-> NilLogger, err |-> "", zap |-> NoZapConfig]

NoDefault == [called |-> FALSE, panicked |-> FALSE, logger |-> NilLogger]

FactoryIdle ==
    /\ cfg = [LogLevel |-> Spell("info"), Development |-> FALSE, Encoding |-> "",
              OutputPaths |-> [len |-> 0, cap |-> 0]]
    /\ backing = <<>>
    /\ loaded = [c |-> cfg, store |-> backing]
    /\ result = NoResult
    /\ dflt = NoDefault

FactoryStart ==
    /\ \E r \in Configs : cfg = r.c /\ backing = r.store
    /\ loaded = [c |-> cfg, store |-> backing]
    /\ result = NoResult
    /\ dflt = NoDefault

(***************************************************************************)
(* The facade: With, Named, WithContext and the emitters, on loggers kept  *)
(* on a heap. A derived logger is a new heap cell; the engine clones the   *)
(* receiver's name and fields into it.                                     *)
(***************************************************************************)
FieldLists == { << <<"k", "v">> >>, << <<"k2", "v2">> >> }

Names == {"", "db"}

\* Contexts: nil, or a context in which the key "request_id" is absent or has
\* a value of some dynamic type.
NilContext == [nil |-> TRUE, has |-> FALSE, type |-> "", val |-> ""]

Contexts ==
    { NilContext,
      [nil |-> FALSE, has |-> FALSE, type |-> "", val |-> ""],
      [nil |-> FALSE, has |-> TRUE, type |-> "string", val |-> "abc"],
      [nil |-> FALSE, has |-> TRUE, type |-> "string", val |-> ""],
      [nil |-> FALSE, has |-> TRUE, type |-> "int", val |-> "42"] }

\* SugaredLogger.With: a clone of l with the fields added after l's own.
WithLogger(l, kv) == [l EXCEPT !.fields = l.fields \o kv]

\* SugaredLogger.Named: a clone of l with the segment added; the engine
\* ignores an empty segment.
NamedLogger(l, name) ==
    IF name = "" THEN l ELSE [l EXCEPT !.name = l.name \o <<name>>]

\* emitted and wctx hold the latest facade call, when it was of their kind.
NoEmitted ==
    [called |-> FALSE, by |-> 0, at |-> 0, kv |-> <<>>,
     rec |-> Record(MkLogger("info"), "info", "", <<>>)]

NoWithContext ==
    [called |-> FALSE, recv |-> 0, ctx |-> NilContext, ret |-> 0, pre |-> <<>>]

\* Faulty variant of WithHeap: the receiver gets the fields too.
WithInPlace(h, p, kv) ==
    Append([h EXCEPT ![p] = WithLogger(h[p], kv)], WithLogger(h[p], kv))

\* (l *Logger) With(fields...): the heap after the call; the new logger is the
\* last cell.
WithHeap(h, p, kv) == Append(h, WithLogger(h[p], kv))

\* (l *Logger) Named(name): the heap after the call.
NamedHeap(h, p, name) == Append(h, NamedLogger(h[p], name))

With(p, kv) ==
    /\ Len(heap) < MaxLoggers
    /\ heap' = WithHeap(heap, p, kv)
    /\ origin' = Append(origin, [parent |-> p, fields |-> kv, name |-> <<>>])
    /\ UNCHANGED <<emitted, wctx>>
    /\ UNCHANGED <<factoryVars, sharedVars, httpVars, rpcVars>>

Named(p, name) ==
    /\ Len(heap) < MaxLoggers
    /\ heap' = NamedHeap(heap, p, name)
    /\ origin' = Append(origin,
                        [parent |-> p, fields |-> <<>>,
                         name |-> IF name = "" THEN <<>> ELSE <<name>>])
    /\ UNCHANGED <<emitted, wctx>>
    /\ UNCHANGED <<factoryVars, sharedVars, httpVars, rpcVars>>

\* Faulty variant of WithContextCall: a request_id of any type is attached.
WithContextAnyType(h, p, ctx) ==
    IF ctx.nil THEN [heap |-> h, ret |-> p]
    ELSE IF ctx.has
         THEN [heap |-> WithHeap(h, p, << <<"request_id", ctx.val>> >>),
               ret |-> Len(h) + 1]
         ELSE [heap |-> h, ret |-> p]

\* (l *Logger) WithContext(ctx): the heap after the call and the pointer
\* returned. The value under "request_id" is used when it is a string.
WithContextCall(h, p, ctx) ==
    IF ctx.nil THEN [heap |-> h, ret |-> p]
    ELSE IF ctx.has /\ ctx.type = "string"
         THEN [heap |-> WithHeap(h, p, << <<"request_id", ctx.val>> >>),
               ret |-> Len(h) + 1]
         ELSE [heap |-> h, ret |-> p]

WithContext(p, ctx) ==
    LET r == WithContextCall(heap, p, ctx)
    IN  /\ Len(r.heap) <= MaxLoggers
        /\ heap' = r.heap
        /\ origin' = IF Len(r.heap) > Len(heap)
                     THEN Append(origin,
                                 [parent |-> p,
                                  fields |-> << <<"request_id", ctx.val>> >>,
                                  name |-> <<>>])
                     ELSE origin
        /\ wctx' = [called |-> TRUE, recv |-> p, ctx |-> ctx, ret |-> r.ret,
                    pre |-> heap]
        /\ emitted' = NoEmitted
        /\ UNCHANGED <<factoryVars, sharedVars, httpVars, rpcVars>>

\* l.Infow / l.Errorw / ... with a message and the call's own fields.
Emit(p, sev) ==
    /\ emitted' = [called |-> TRUE, by |-> p, at |-> Len(heap),
                   kv |-> << <<"n", "1">> >>,
                   rec |-> Record(heap[p], sev, "msg", << <<"n", "1">> >>)]
    /\ wctx' = NoWithContext
    /\ UNCHANGED <<heap, origin>>
    /\ UNCHANGED <<factoryVars, sharedVars, httpVars, rpcVars>>

RootOrigin == [parent |-> 0, fields |-> <<>>, name |-> <<>>]

FacadeIdle ==
    /\ heap = <<MkLogger("info")>>
    /\ origin = <<RootOrigin>>
    /\ emitted = NoEmitted
    /\ wctx = NoWithContext

\* The heap starts with one logger, as New returns it.
FacadeStart ==
    /\ \E lv \in {"info", "error"} : heap = <<MkLogger(lv)>>
    /\ origin = <<RootOrigin>>
    /\ emitted = NoEmitted
    /\ wctx = NoWithContext

FacadeNext ==
    \/ \E p \in 1..Len(heap), kv \in FieldLists : With(p, kv)
    \/ \E p \in 1..Len(heap), name \in Names : Named(p, name)
    \/ \E p \in 1..Len(heap), ctx \in Contexts : WithContext(p, ctx)
    \/ \E p \in 1..Len(heap), sev \in {"info", "error"} : Emit(p, sev)

(***************************************************************************)
(* What the two interceptors share: the logger they captured and the clock.*)
(***************************************************************************)
\* Loggers an interceptor may be given: from New at two levels, and one
\* derived with a standing field.
LogChoices ==
    { MkLogger("info"), MkLogger("error"),
      WithLogger(MkLogger("debug"), << <<"service", "api">> >>) }

\* Time passes; time.Now() reads a clock that never goes back.
Tick ==
    /\ now < MaxClock
    /\ now' = now + 1
    /\ UNCHANGED <<log, factoryVars, facadeVars, httpVars, rpcVars>>

SharedIdle == log = MkLogger("info") /\ now = 0

SharedStart == log \in LogChoices /\ now = 0

(***************************************************************************)
(* GinLogger: the middleware runs up to c.Next(), the rest of the chain    *)
(* runs (and may add errors, set the status, rewrite the request URL or    *)
(* panic), and the middleware resumes when c.Next() returns.               *)
(***************************************************************************)
Requests ==
    [Method : {"GET", "POST"}, Path : {"/foo", "/bar"}, RawQuery : {"", "x=1"},
     ClientIP : {"10.0.0.1"}, UserAgent : {"curl/8"}]

\* Errors a handler may attach with c.Error: the error's text and gin's type.
HandlerErrors ==
    { [Err |-> "not found", Type |-> "public"],
      [Err |-> "db down", Type |-> "private"] }

Statuses == {"200", "404", "500"}

IdleRequest ==
    [Method |-> "GET", Path |-> "/foo", RawQuery |-> "", ClientIP |-> "10.0.0.1",
     UserAgent |-> "curl/8"]

IdleHTTP ==
    [pc |-> "idle", Request |-> IdleRequest, Errors |-> <<>>, Status |-> "200",
     start |-> 0, path |-> "", query |-> "", latency |-> 0]

\* c.Errors.Errors(): the text of each error, in order.
ErrorStrings(errs) == [i \in 1..Len(errs) |-> errs[i].Err]

\* The key/value list both branches of GinLogger pass to the logger.
GinFields(c, path, query, latency) ==
    << <<"status", c.Status>>,
       <<"method", c.Request.Method>>,
       <<"path", path>>,
       <<"query", query>>,
       <<"ip", c.Request.ClientIP>>,
       <<"user-agent", c.Request.UserAgent>>,
       <<"latency", latency>> >>

\* Faulty variant of GinRecords: only the first error is logged.
GinRecordsFirstError(l, c, path, query, latency) ==
    IF Len(c.Errors) > 0
    THEN << Errorw(l, ErrorStrings(c.Errors)[1], GinFields(c, path, query, latency)) >>
    ELSE << Infow(l, "HTTP request", GinFields(c, path, query, latency)) >>

\* Faulty variant of GinRecords: the Info record is emitted after the errors too.
GinRecordsAlwaysInfo(l, c, path, query, latency) ==
    [i \in 1..Len(c.Errors) |->
        Errorw(l, ErrorStrings(c.Errors)[i], GinFields(c, path, query, latency))]
    \o << Infow(l, "HTTP request", GinFields(c, path, query, latency)) >>

\* The records GinLogger hands to the logger once c.Next() has returned:
\* one Errorw per string of c.Errors.Errors(), or one Infow when there is none.
GinRecords(l, c, path, query, latency) ==
    IF Len(c.Errors) > 0
    THEN [i \in 1..Len(c.Errors) |->
            Errorw(l, ErrorStrings(c.Errors)[i], GinFields(c, path, query, latency))]
    ELSE << Infow(l, "HTTP request", GinFields(c, path, query, latency)) >>

\* The middleware is entered: start, path and query are taken, then c.Next().
GinEnter(r) ==
    /\ http.pc # "next"
    /\ http' = [pc |-> "next", Request |-> r, Errors |-> <<>>, Status |-> "200",
                start |-> now, path |-> r.Path, query |-> r.RawQuery,
                latency |-> 0]
    /\ httpLog' = <<>>
    /\ UNCHANGED <<factoryVars, facadeVars, sharedVars, rpcVars>>

\* Downstream: c.Error(err).
HandlerError(e) ==
    /\ http.pc = "next"
    /\ Len(http.Errors) < MaxErrors
    /\ http' = [http EXCEPT !.Errors = Append(@, e)]
    /\ UNCHANGED httpLog
    /\ UNCHANGED <<factoryVars, facadeVars, sharedVars, rpcVars>>

\* Downstream: c.Status(code) or a response writer.
HandlerStatus(st) ==
    /\ http.pc = "next"
    /\ http' = [http EXCEPT !.Status = st]
    /\ UNCHANGED httpLog
    /\ UNCHANGED <<factoryVars, facadeVars, sharedVars, rpcVars>>

\* Downstream: the request URL is rewritten.
HandlerRewrite(newPath) ==
    /\ http.pc = "next"
    /\ http' = [http EXCEPT !.Request.Path = newPath]
    /\ UNCHANGED httpLog
    /\ UNCHANGED <<factoryVars, facadeVars, sharedVars, rpcVars>>

\* Downstream panics: c.Next() does not return and the middleware, which
\* defers nothing, is unwound.
HandlerPanic ==
    /\ http.pc = "next"
    /\ http' = [http EXCEPT !.pc = "panicked"]
    /\ UNCHANGED httpLog
    /\ UNCHANGED <<factoryVars, facadeVars, sharedVars, rpcVars>>

\* c.Next() returns: the latency is computed and the records are emitted.
GinReturn ==
    /\ http.pc = "next"
    /\ http' = [http EXCEPT !.pc = "done", !.latency = now - http.start]
    /\ httpLog' = GinRecords(log, http, http.path, http.query, now - http.start)
    /\ UNCHANGED <<factoryVars, facadeVars, sharedVars, rpcVars>>

HTTPIdle == http = IdleHTTP /\ httpLog = <<>>

HTTPNext ==
    \/ \E r \in Requests : GinEnter(r)
    \/ \E e \in HandlerErrors : HandlerError(e)
    \/ \E st \in Statuses : HandlerStatus(st)
    \/ \E np \in {"/foo", "/index"} : HandlerRewrite(np)
    \/ HandlerPanic
    \/ GinReturn
    \/ Tick

(***************************************************************************)
(* GRPCLoggingInterceptor: the interceptor calls the handler, and resumes  *)
(* when the handler returns its (resp, err).                               *)
(***************************************************************************)
NilValue == [nil |-> TRUE, val |-> ""]

Value(v) == [nil |-> FALSE, val |-> v]

RPCContexts == {Value("ctxA"), Value("ctxB")}

RPCRequests == {Value("reqA"), Value("reqB")}

Methods == {"/svc/Method", "/svc/Other"}

Responses == {NilValue, Value("respA"), Value("respB")}

HandlerErrs == {NilValue, Value("rpc error: not found")}

IdleRPC ==
    [pc |-> "idle", ctx |-> NilValue, req |-> NilValue, FullMethod |-> "",
     start |-> 0, calls |-> <<>>, out |-> [resp |-> NilValue, err |-> NilValue],
     ret |-> [resp |-> NilValue, err |-> NilValue]]

\* handler(ctx, req): the arguments the wrapped handler is called with.
HandlerArgs(ctx, req) == [ctx |-> ctx, req |-> req]

\* Faulty variant of GRPCRecords: a failed call is logged at both levels.
GRPCRecordsBoth(l, method, err, duration) ==
    IF ~err.nil
    THEN << Errorw(l, "gRPC request failed",
                   << <<"method", method>>, <<"duration", duration>>,
                      <<"error", err.val>> >>),
            Infow(l, "gRPC request",
                  << <<"method", method>>, <<"duration", duration>> >>) >>
    ELSE << Infow(l, "gRPC request",
                  << <<"method", method>>, <<"duration", duration>> >>) >>

\* The record the interceptor hands to the logger once the handler returned.
GRPCRecords(l, method, err, duration) ==
    IF ~err.nil
    THEN << Errorw(l, "gRPC request failed",
                   << <<"method", method>>, <<"duration", duration>>,
                      <<"error", err.val>> >>) >>
    ELSE << Infow(l, "gRPC request",
                  << <<"method", method>>, <<"duration", duration>> >>) >>

\* Faulty variant of GRPCReturn: the response is dropped when err is set.
GRPCReturnNilOnError(resp, err) ==
    [resp |-> IF err.nil THEN resp ELSE NilValue, err |-> err]

\* return resp, err
GRPCReturn(resp, err) == [resp |-> resp, err |-> err]

\* The interceptor is entered: start is taken and the handler is called.
GRPCEnter(ctx, req, method) ==
    /\ rpc.pc # "handler"
    /\ rpc' = [IdleRPC EXCEPT !.pc = "handler", !.ctx = ctx, !.req = req,
                              !.FullMethod = method, !.start = now,
                              !.calls = <<HandlerArgs(ctx, req)>>]
    /\ rpcLog' = <<>>
    /\ UNCHANGED <<factoryVars, facadeVars, sharedVars, httpVars>>

\* The handler panics: the interceptor is unwound.
GRPCHandlerPanic ==
    /\ rpc.pc = "handler"
    /\ rpc' = [rpc EXCEPT !.pc = "panicked"]
    /\ UNCHANGED rpcLog
    /\ UNCHANGED <<factoryVars, facadeVars, sharedVars, httpVars>>

\* The handler returns (resp, err): the record is emitted, with
\* time.Since(start), and the pair is returned.
GRPCHandlerReturn(resp, err) ==
    /\ rpc.pc = "handler"
    /\ rpc' = [rpc EXCEPT !.pc = "done",
                          !.out = [resp |-> resp, err |-> err],
                          !.ret = GRPCReturn(resp, err)]
    /\ rpcLog' = GRPCRecords(log, rpc.FullMethod, err, now - rpc.start)
    /\ UNCHANGED <<factoryVars, facadeVars, sharedVars, httpVars>>

RPCIdle == rpc = IdleRPC /\ rpcLog = <<>>

RPCNext ==
    \/ \E ctx \in RPCContexts, req \in RPCRequests, m \in Methods :
          GRPCEnter(ctx, req, m)
    \/ GRPCHandlerPanic
    \/ \E resp \in Responses, err \in HandlerErrs : GRPCHandlerReturn(resp, err)
    \/ Tick

(***************************************************************************)
(* Specifications. The four parts share no state that any of them writes  *)
(* (the interceptors only read log and now), so each part is also checked *)
(* alone, from its own initial states, with the other parts at rest.      *)
(***************************************************************************)
FactoryNext == New \/ NewDefault

Init == FactoryStart /\ FacadeStart /\ SharedStart /\ HTTPIdle /\ RPCIdle

Next == FactoryNext \/ FacadeNext \/ HTTPNext \/ RPCNext

Spec == Init /\ [][Next]_vars

InitFactory == FactoryStart /\ FacadeIdle /\ SharedIdle /\ HTTPIdle /\ RPCIdle

SpecFactory == InitFactory /\ [][FactoryNext]_vars

InitFacade == FactoryIdle /\ FacadeStart /\ SharedIdle /\ HTTPIdle /\ RPCIdle

SpecFacade == InitFacade /\ [][FacadeNext]_vars

InitHTTP == FactoryIdle /\ FacadeIdle /\ SharedStart /\ HTTPIdle /\ RPCIdle

SpecHTTP == InitHTTP /\ [][HTTPNext]_vars

InitRPC == FactoryIdle /\ FacadeIdle /\ SharedStart /\ HTTPIdle /\ RPCIdle

SpecRPC == InitRPC /\ [][RPCNext]_vars

(***************************************************************************)
(* Properties of the HTTP middleware (checked under SpecHTTP).             *)
(***************************************************************************)
GinKeys == <<"status", "method", "path", "query", "ip", "user-agent", "latency">>

\* The fields of record r that the call added after the logger's own.
CallFields(r, l) == SubSeq(r.fields, Len(l.fields) + 1, Len(r.fields))

\* The request summary a record of the finished request must carry: the final
\* status and method, the path and query taken on entry, and the latency.
CarriesSummary(r) ==
    LET kv == CallFields(r, log)
    IN  /\ [i \in 1..Len(kv) |-> kv[i][1]] = GinKeys
        /\ kv[1][2] = http.Status
        /\ kv[2][2] = http.Request.Method
        /\ kv[3][2] = http.path
        /\ kv[4][2] = http.query
        /\ kv[5][2] = http.Request.ClientIP
        /\ kv[6][2] = http.Request.UserAgent
        /\ kv[7][2] = http.latency /\ http.latency >= 0
        /\ r.enabled = (LevelRank(r.level) >= LevelRank(log.level))

\* C1: once the handler chain has returned, a request with no accumulated
\* error has produced exactly one Info record and no Error record; a request
\* with n >= 1 errors has produced exactly n Error records, the i-th with the
\* text of the i-th error, and no Info record; every record carries status,
\* method, path, query, client IP, user agent and latency. (Records are
\* counted as handed to the logger; "enabled" tells which of them the
\* logger's level lets through.)
C1_RecordsPerOutcome ==
    http.pc = "done" =>
        /\ Len(http.Errors) = 0 =>
              /\ Len(httpLog) = 1
              /\ httpLog[1].level = "info"
        /\ Len(http.Errors) >= 1 =>
              /\ Len(httpLog) = Len(http.Errors)
              /\ \A i \in 1..Len(httpLog) :
                    /\ httpLog[i].level = "error"
                    /\ httpLog[i].msg = http.Errors[i].Err
        /\ \A i \in 1..Len(httpLog) : CarriesSummary(httpLog[i])

C1_Witness ==
    /\ http.pc = "done"
    /\ Len(http.Errors) = 2
    /\ http.Errors[1].Err # http.Errors[2].Err
    /\ Len(httpLog) = 2
    /\ httpLog[2].msg = http.Errors[2].Err
    /\ http.latency > 0
    /\ http.Request.Path # http.path

\* C2 as stated: every request that passed through the middleware has
\* produced exactly one log entry, whatever the handler chain did.
C2_ExactlyOneEntry == http.pc = "done" => Len(httpLog) = 1

\* C2, amended: a request whose handler chain returned has produced exactly
\* one log entry when at most one error was accumulated, and one entry per
\* error when more were.
C2_OneEntryOrOnePerError ==
    http.pc = "done" =>
        Len(httpLog) = IF Len(http.Errors) <= 1 THEN 1 ELSE Len(http.Errors)

C2_Witness ==
    /\ http.pc = "done"
    /\ Len(http.Errors) >= 2
    /\ http.Status = "500"
    /\ Len(httpLog) = Len(http.Errors)

(***************************************************************************)
(* Properties of the gRPC interceptor (checked under SpecRPC).             *)
(***************************************************************************)
\* C3: the wrapped handler is invoked exactly once, with the context and the
\* request the interceptor was given, and the pair the interceptor returns is
\* the pair the handler produced, whatever that pair is.
C3_PassThrough ==
    /\ rpc.pc \in {"handler", "done", "panicked"} =>
          rpc.calls = << [ctx |-> rpc.ctx, req |-> rpc.req] >>
    /\ rpc.pc = "done" => rpc.ret = rpc.out

C3_Witness ==
    /\ rpc.pc = "done"
    /\ ~rpc.out.err.nil
    /\ ~rpc.out.resp.nil
    /\ rpc.ret.resp = rpc.out.resp
    /\ Len(rpc.calls) = 1

\* C4: no record is emitted while the wrapped handler runs; once it has
\* returned exactly one record has been emitted: an Error record with the full
\* method name, the duration and the error if the handler returned an error,
\* and otherwise an Info record with the full method name and the duration.
C4_OneRecordAfterHandler ==
    /\ rpc.pc = "handler" => rpcLog = <<>>
    /\ rpc.pc = "done" =>
          /\ Len(rpcLog) = 1
          /\ (rpcLog[1].level = "error") = ~rpc.out.err.nil
          /\ rpcLog[1].level \in {"info", "error"}
          /\ LET kv == CallFields(rpcLog[1], log)
             IN  /\ kv[1] = <<"method", rpc.FullMethod>>
                 /\ kv[2][1] = "duration" /\ kv[2][2] >= 0
                 /\ IF rpc.out.err.nil
                    THEN Len(kv) = 2
                    ELSE Len(kv) = 3 /\ kv[3] = <<"error", rpc.out.err.val>>

C4_Witness ==
    /\ rpc.pc = "done"
    /\ ~rpc.out.err.nil
    /\ Len(rpcLog) = 1
    /\ rpcLog[1].level = "error"
    /\ CallFields(rpcLog[1], log)[2][2] > 0

(***************************************************************************)
(* Properties of the factory (checked under SpecFactory).                  *)
(***************************************************************************)
\* A text is a known severity name when, letter case aside, it spells a level.
IsSeverityName(text) == \E l \in LevelSet : ToLower(text) = Spell(l)

NamedLevel(text) == CHOOSE l \in LevelSet : ToLower(text) = Spell(l)

\* The engine accepts the rest of the caller's configuration: the encoding,
\* once defaulted, is registered and every configured sink can be opened.
EngineAccepts ==
    /\ (IF cfg.Encoding = "" THEN "json" ELSE cfg.Encoding) \in RegisteredEncodings
    /\ \A i \in 1..cfg.OutputPaths.len :
          loaded.store[i] = "stdout" \/ Openable(loaded.store[i])

\* New returned an instance that emits exactly the records at or above lv.
ReturnedAtLevel(lv) ==
    /\ result.err = ""
    /\ ~result.logger.nil
    /\ \A sev \in LevelSet :
          Record(result.logger, sev, "m", <<>>).enabled
              = (LevelRank(sev) >= LevelRank(lv))

ReturnedError == result.err # "" /\ result.logger.nil

\* C5 as stated: NewDefault never panics and returns a non-nil instance,
\* whatever zap.NewProduction returned.
C5_NewDefaultNeverFails ==
    dflt.called => ~dflt.panicked /\ ~dflt.logger.nil

C9_AssembledConfig ==
    result.called /\ result.err = "" =>
        /\ result.zap.Encoding = IF loaded.c.Encoding = "" THEN "json"
                                 ELSE loaded.c.Encoding
        /\ result.zap.OutputPaths
              = SubSeq(loaded.store, 1, loaded.c.OutputPaths.len) \o <<"stderr">>
        /\ result.zap.ErrorOutputPaths = <<"stderr">>

C9_Witness ==
    /\ result.called
    /\ result.err = ""
    /\ loaded.c.Encoding = ""
    /\ result.zap.Encoding = "json"
    /\ loaded.c.OutputPaths.len >= 1
    /\ Len(result.zap.OutputPaths) = loaded.c.OutputPaths.len + 1

\* C10 as stated: after any calls of New the caller's configuration, and every
\* element of the array behind its output sink list, is what it was before.
C10_ConfigUntouched == cfg = loaded.c /\ backing = loaded.store

(***************************************************************************)
(* Properties of the facade (checked under SpecFacade).                    *)
(***************************************************************************)
RECURSIVE ChainFields(_)
\* The fields attached along the derivation chain of heap logger p.
ChainFields(p) ==
    IF origin[p].parent = 0 THEN <<>>
    ELSE ChainFields(origin[p].parent) \o origin[p].fields

RECURSIVE ChainName(_)
\* The name segments added along the derivation chain of heap logger p.
ChainName(p) ==
    IF origin[p].parent = 0 THEN <<>>
    ELSE ChainName(origin[p].parent) \o origin[p].name

\* C7: every record a logger emits carries, before the call's own fields,
\* exactly the fields attached along its own derivation chain, and the name
\* segments added along it: all of them for a derived logger, and none of
\* those that later derivations from it added.
C7_DerivationsDoNotMutate ==
    emitted.called =>
        /\ emitted.rec.fields = ChainFields(emitted.by) \o emitted.kv
        /\ emitted.rec.name = ChainName(emitted.by)

C7_Witness ==
    /\ emitted.called
    /\ Len(heap) = 3
    /\ origin[2] = [parent |-> 1, fields |-> << <<"k", "v">> >>, name |-> <<>>]
    /\ origin[3] = [parent |-> 2, fields |-> << <<"k2", "v2">> >>, name |-> <<>>]
    /\ heap[3].fields = << <<"k", "v">>, <<"k2", "v2">> >>
    /\ emitted.by = 1
    /\ emitted.at = 3
    /\ emitted.rec.fields = emitted.kv

\* WithContext returned a new logger that has the receiver's fields followed
\* by request_id, and the receiver is as it was before the call.
ReturnedDerived ==
    /\ wctx.ret = Len(wctx.pre) + 1
    /\ wctx.ret # wctx.recv
    /\ heap[wctx.ret].fields
          = wctx.pre[wctx.recv].fields \o << <<"request_id", wctx.ctx.val>> >>
    /\ heap[wctx.ret].name = wctx.pre[wctx.recv].name
    /\ heap[wctx.recv] = wctx.pre[wctx.recv]
    /\ Len(heap[wctx.recv].fields) < Len(heap[wctx.ret].fields)

\* WithContext returned the receiver itself, and the receiver is as it was.
ReturnedReceiver ==
    /\ wctx.ret = wctx.recv
    /\ heap[wctx.recv] = wctx.pre[wctx.recv]

\* C8 as stated: a context that carries a request_id value gives a derived
\* instance with that request_id attached; a nil context or one without
\* request_id gives the receiver itself.
C8_AnyRequestID ==
    wctx.called =>
        IF ~wctx.ctx.nil /\ wctx.ctx.has THEN ReturnedDerived ELSE ReturnedReceiver

\* C8, amended: a context that carries a request_id value of type string gives
\* a derived instance with that request_id attached, the receiver being left
\* without it; a nil context, one without request_id, or one whose request_id
\* is not a string gives the receiver itself, unchanged.
C8_StringRequestID ==
    wctx.called =>
        IF ~wctx.ctx.nil /\ wctx.ctx.has /\ wctx.ctx.type = "string"
        THEN ReturnedDerived
        ELSE ReturnedReceiver

C8_Witness ==
    /\ wctx.called
    /\ wctx.ctx.has
    /\ wctx.ctx.type = "int"
    /\ wctx.ret = wctx.recv
    /\ Len(heap) = Len(wctx.pre)

====
